---------------------------- MODULE Spec2Model ----------------------------
(***************************************************************************)
(* A model of super_video_grep: the interval merger (segments.py,          *)
(* pad_and_merge), the phrase matcher (segments.py), the coarse subtitle   *)
(* matcher (subtitles.py), the ASR degradation ladder (asr.py, transcribe) *)
(* and the pipeline orchestrator (cli.py, main).                           *)
(*                                                                         *)
(* Times are seconds in the source (Python floats).  The model uses        *)
(* integers: one unit is one tick of an arbitrary clock, and the           *)
(* arithmetic of the source (+, -, max, <=, >=) is exact on them.          *)
(* A tuple <<s, e>> is the source's (start, end) pair.                     *)
(*                                                                         *)
(* Strings (tokens, cue text) are sequences of one-character strings, so   *)
(* that lower-casing, stripping and splitting are computed, not assumed.   *)
(***************************************************************************)
EXTENDS Integers, Sequences, FiniteSets, TLC

(***************************************************************************)
(* Bounds of the model.                                                    *)
(***************************************************************************)
MaxTime == 3
MaxSegs == 3
MaxTokLen == 3
MaxWords == 3
MaxPhrases == 2
MaxCues == 2
MaxBatch == 2
MaxInputs == 2

VARIABLES
    \* ---- pad_and_merge (segments.py:108-138) ----
    pm_pc,          \* position in pad_and_merge: call, sweep, done, reapplied
    segments,       \* the argument `segments`
    padding,        \* the argument `padding`
    merge_gap,      \* the argument `merge_gap`
    min_duration,   \* the argument `min_duration`
    padded,         \* the local list `padded`
    pm_i,           \* position of the sweep's next interval in `padded` (1-based)
    cur_start,      \* the local `cur_start`
    cur_end,        \* the local `cur_end`
    merged,         \* the local list `merged` (the return value at done)
    reapplied,      \* pad_and_merge(merged, 0, 0, min_duration), once computed
    \* ---- token_matches (segments.py:44-55) ----
    tm_pc,          \* call, done
    tm_token,       \* the argument `token`
    tm_query,       \* the argument `query`
    tm_mode,        \* the argument `mode`
    tm_result,      \* what the call did: a returned value or a raised error
    \* ---- find_any_phrase_matches (segments.py:80-90) ----
    fa_pc,          \* loop, done
    fa_words,       \* the argument `words`
    fa_phrases,     \* the argument `phrases`
    fa_mode,        \* the argument `match_mode`
    fa_k,           \* position of the loop's next phrase (1-based)
    fa_matches,     \* the local list `matches`
    \* ---- match_subtitle_segments (subtitles.py:84-94) ----
    ms_pc,          \* loop, done
    ms_segments,    \* the argument `segments` (the cues)
    ms_phrases,     \* the argument `phrases`
    ms_mode,        \* the argument `match_mode`
    ms_k,           \* position of the loop's next cue (1-based)
    ms_matches,     \* the local list `matches`
    \* ---- transcribe (asr.py:58-102) ----
    asr_pc,             \* start, batched_all, batched_no_vad, plain, done
    language,           \* the argument `language`: "None" or a code
    vad_filter,         \* the argument `vad_filter`
    vad_parameters,     \* the argument `vad_parameters`: "None" or "set"
    batch_size,         \* the argument `batch_size` (0 stands for None)
    batched_available,  \* BatchedInferencePipeline is not None (asr.py:6-9)
    rejects_batched,    \* keywords the batched pipeline's transcribe rejects
    rejects_plain,      \* keywords the model's transcribe rejects
    attempts,           \* the engine calls made so far: "a", "b", "c"
    warnings,           \* the local list `warnings`
    asr_result,         \* what the call did: returned, or raised
    \* ---- main (cli.py:97-271) ----
    main_pc,            \* args, setup, file, cue, merged, finish, returned, raised
    inputs,             \* per input file, the cues its subtitle source holds
    args,               \* the parsed command line
    query_tokens_list,  \* the local `query_tokens_list`
    tmpdir,             \* the temporary directory: none, held, released
    idx,                \* the loop's `idx` (1-based input position)
    matched_subs,       \* the local `matched_subs`
    cue_k,              \* position of the cue loop's next cue (1-based)
    refined,            \* the local list `refined`
    cue_log,            \* per cue handled for this input: the extraction's
                        \* exception, the words transcribed, what was appended
    raw_matches,        \* the local `raw_matches`
    file_segments,      \* the local `segments` (this input's merged spans)
    all_clips,          \* the local list `all_clips`
    counter_index,      \* the local `counter_index`
    merge_log,          \* per pad_and_merge call main made, the input (idx)
                        \* it was made for
    artifacts,          \* the kinds of intermediate file the run wrote of
                        \* which some file exists
    exit,               \* main's return code (-1 while running) and message
    \* ---- pad_and_merge called on two arrival orders of one list ----
    ao_pc,              \* call, done
    ao_segments,        \* the intervals, listed by (start, end)
    ao_padding,         \* the argument `padding` of both calls
    ao_merge_gap,       \* the argument `merge_gap` of both calls
    ao_min_duration,    \* the argument `min_duration` of both calls
    ao_arrival,         \* the same intervals in the order they arrive in
    ao_result,          \* what pad_and_merge returned for ao_segments
    ao_result_arrival   \* what pad_and_merge returned for ao_arrival

mergeVars == <<pm_pc, segments, padding, merge_gap, min_duration, padded,
               pm_i, cur_start, cur_end, merged, reapplied>>
tokenVars == <<tm_pc, tm_token, tm_query, tm_mode, tm_result>>
phraseVars == <<fa_pc, fa_words, fa_phrases, fa_mode, fa_k, fa_matches>>
subsVars == <<ms_pc, ms_segments, ms_phrases, ms_mode, ms_k, ms_matches>>

asrVars == <<asr_pc, language, vad_filter, vad_parameters, batch_size,
             batched_available, rejects_batched, rejects_plain, attempts,
             warnings, asr_result>>

mainVars == <<main_pc, inputs, args, query_tokens_list, tmpdir, idx,
              matched_subs, cue_k, refined, cue_log, raw_matches,
              file_segments, all_clips, counter_index, merge_log,
              artifacts, exit>>

orderVars == <<ao_pc, ao_segments, ao_padding, ao_merge_gap, ao_min_duration,
               ao_arrival, ao_result, ao_result_arrival>>

vars == <<mergeVars, tokenVars, phraseVars, subsVars, asrVars, mainVars,
          orderVars>>

(***************************************************************************)
(* Each specification below runs one part of the program and leaves the    *)
(* variables of the other parts at rest.                                   *)
(***************************************************************************)
MergeIdle ==
    /\ pm_pc = "idle"
    /\ segments = <<>>
    /\ padding = 0
    /\ merge_gap = 0
    /\ min_duration = 0
    /\ padded = <<>>
    /\ pm_i = 0
    /\ cur_start = 0
    /\ cur_end = 0
    /\ merged = <<>>
    /\ reapplied = <<>>

TokenIdle ==
    /\ tm_pc = "idle"
    /\ tm_token = <<>>
    /\ tm_query = <<>>
    /\ tm_mode = "exact"
    /\ tm_result = [exc |-> "pending"]

PhraseIdle ==
    /\ fa_pc = "idle"
    /\ fa_words = <<>>
    /\ fa_phrases = <<>>
    /\ fa_mode = "exact"
    /\ fa_k = 0
    /\ fa_matches = <<>>

SubsIdle ==
    /\ ms_pc = "idle"
    /\ ms_segments = <<>>
    /\ ms_phrases = <<>>
    /\ ms_mode = "exact"
    /\ ms_k = 0
    /\ ms_matches = <<>>

AsrIdle ==
    /\ asr_pc = "idle"
    /\ language = "None"
    /\ vad_filter = FALSE
    /\ vad_parameters = "None"
    /\ batch_size = 0
    /\ batched_available = FALSE
    /\ rejects_batched = {}
    /\ rejects_plain = {}
    /\ attempts = <<>>
    /\ warnings = <<>>
    /\ asr_result = [exc |-> "pending"]

MainIdle ==
    /\ main_pc = "idle"
    /\ inputs = <<>>
    /\ args = [n_subtitles |-> 0]
    /\ query_tokens_list = <<>>
    /\ tmpdir = "none"
    /\ idx = 0
    /\ matched_subs = <<>>
    /\ cue_k = 0
    /\ refined = <<>>
    /\ cue_log = <<>>
    /\ raw_matches = <<>>
    /\ file_segments = <<>>
    /\ all_clips = <<>>
    /\ counter_index = 0
    /\ merge_log = <<>>
    /\ artifacts = {}
    /\ exit = [code |-> -1, message |-> ""]

OrderIdle ==
    /\ ao_pc = "idle"
    /\ ao_segments = <<>>
    /\ ao_padding = 0
    /\ ao_merge_gap = 0
    /\ ao_min_duration = 0
    /\ ao_arrival = <<>>
    /\ ao_result = <<>>
    /\ ao_result_arrival = <<>>

exceptMerge ==
    <<tokenVars, phraseVars, subsVars, asrVars, mainVars, orderVars>>
exceptToken ==
    <<mergeVars, phraseVars, subsVars, asrVars, mainVars, orderVars>>
exceptPhrase ==
    <<mergeVars, tokenVars, subsVars, asrVars, mainVars, orderVars>>
exceptSubs ==
    <<mergeVars, tokenVars, phraseVars, asrVars, mainVars, orderVars>>
exceptAsr ==
    <<mergeVars, tokenVars, phraseVars, subsVars, mainVars, orderVars>>
exceptMain ==
    <<mergeVars, tokenVars, phraseVars, subsVars, asrVars, orderVars>>
exceptOrder ==
    <<mergeVars, tokenVars, phraseVars, subsVars, asrVars, mainVars>>

MergeRest ==
    TokenIdle /\ PhraseIdle /\ SubsIdle /\ AsrIdle /\ MainIdle /\ OrderIdle
TokenRest ==
    MergeIdle /\ PhraseIdle /\ SubsIdle /\ AsrIdle /\ MainIdle /\ OrderIdle
PhraseRest ==
    MergeIdle /\ TokenIdle /\ SubsIdle /\ AsrIdle /\ MainIdle /\ OrderIdle
SubsRest ==
    MergeIdle /\ TokenIdle /\ PhraseIdle /\ AsrIdle /\ MainIdle /\ OrderIdle
AsrRest ==
    MergeIdle /\ TokenIdle /\ PhraseIdle /\ SubsIdle /\ MainIdle /\ OrderIdle
MainRest ==
    MergeIdle /\ TokenIdle /\ PhraseIdle /\ SubsIdle /\ AsrIdle /\ OrderIdle
OrderRest ==
    MergeIdle /\ TokenIdle /\ PhraseIdle /\ SubsIdle /\ AsrIdle /\ MainIdle

(***************************************************************************)
(* Helpers.                                                                *)
(***************************************************************************)
Max(a, b) == IF a >= b THEN a ELSE b

RECURSIVE SeqsUpTo(_, _)
\* All sequences over S of length 0..n.
SeqsUpTo(S, n) ==
    IF n = 0 THEN {<<>>}
    ELSE LET P == SeqsUpTo(S, n - 1)
         IN  P \cup {Append(s, x) : s \in {q \in P : Len(q) = n - 1}, x \in S}

(***************************************************************************)
(* pad_and_merge, segments.py:108-138.                                     *)
(***************************************************************************)

PadOneNoClamp(seg, p) == <<seg[1] - p, seg[2] + p>>

\* segments.py:116-117: one interval padded, its start clamped at 0.
PadOne(seg, p) == <<Max(0, seg[1] - p), seg[2] + p>>

\* segments.py:114-119: pad every interval, keep those with end > start.
PadSegments(segs, p) ==
    SelectSeq([k \in 1..Len(segs) |-> PadOne(segs[k], p)],
              LAMBDA x : x[2] > x[1])

\* list.sort is stable: x goes after every element whose key is <= its key.
InsertByStart(sorted, x) ==
    LET n == Cardinality({k \in 1..Len(sorted) : sorted[k][1] <= x[1]})
    IN  SubSeq(sorted, 1, n) \o <<x>> \o SubSeq(sorted, n + 1, Len(sorted))

RECURSIVE SortByStartRec(_)
SortByStartRec(s) ==
    IF s = <<>> THEN <<>>
    ELSE InsertByStart(SortByStartRec(SubSeq(s, 1, Len(s) - 1)), s[Len(s)])

SortByStartUnsorted(s) == s

\* segments.py:124: padded.sort(key=lambda x: x[0]).
SortByStart(s) == SortByStartRec(s)

CoalescesStrict(running_end, start, gap) == start < running_end + gap

\* segments.py:129: the test that extends the running span.
Coalesces(running_end, start, gap) == start <= running_end + gap

CloseRunAlways(st, m) == Append(st.merged, <<st.cur_start, st.cur_end>>)

\* segments.py:132-133 and 136-137: a closed run is kept iff it is long enough.
CloseRun(st, m) ==
    IF st.cur_end - st.cur_start >= m
    THEN Append(st.merged, <<st.cur_start, st.cur_end>>)
    ELSE st.merged

\* segments.py:128-134: one iteration of the sweep over padded[1:].
SweepStep(st, iv, gap, m) ==
    IF Coalesces(st.cur_end, iv[1], gap)
    THEN [st EXCEPT !.cur_end = Max(st.cur_end, iv[2])]
    ELSE [cur_start |-> iv[1], cur_end |-> iv[2], merged |-> CloseRun(st, m)]

RECURSIVE Sweep(_, _, _, _)
\* segments.py:127-134: the whole sweep, from the state st over the list rest.
Sweep(st, rest, gap, m) ==
    IF rest = <<>> THEN st
    ELSE Sweep(SweepStep(st, Head(rest), gap, m), Tail(rest), gap, m)

pad_and_merge_NoFinal(segs, p, gap, m) ==
    LET pd == PadSegments(segs, p)
    IN  IF pd = <<>> THEN <<>>
        ELSE LET s  == SortByStart(pd)
                 s0 == [cur_start |-> s[1][1], cur_end |-> s[1][2], merged |-> <<>>]
             IN  Sweep(s0, Tail(s), gap, m).merged

\* segments.py:108-138: the function as a whole.
pad_and_merge(segs, p, gap, m) ==
    LET pd == PadSegments(segs, p)
    IN  IF pd = <<>> THEN <<>>
        ELSE LET s  == SortByStart(pd)
                 s0 == [cur_start |-> s[1][1], cur_end |-> s[1][2], merged |-> <<>>]
             IN  CloseRun(Sweep(s0, Tail(s), gap, m), m)

(***************************************************************************)
(* Inputs of pad_and_merge.  Raw intervals come from cue bounds and from   *)
(* ASR word times shifted by the cue start (cli.py:203-207); a degenerate  *)
(* interval (start = end) can arrive.  The parameters are unchecked floats *)
(* of the command line (cli.py:34-38), so negative values can arrive too.  *)
(***************************************************************************)
Times == 0..MaxTime
Intervals == {iv \in Times \X Times : iv[1] <= iv[2]}
Paddings == {-1, 0, 1}
MergeGaps == {-2, 0, 1}
MinDurations == {0, 2}

InitMerge ==
    /\ pm_pc = "call"
    /\ segments \in SeqsUpTo(Intervals, MaxSegs)
    /\ padding \in Paddings
    /\ merge_gap \in MergeGaps
    /\ min_duration \in MinDurations
    /\ padded = <<>>
    /\ pm_i = 0
    /\ cur_start = 0
    /\ cur_end = 0
    /\ merged = <<>>
    /\ reapplied = <<>>
    /\ MergeRest

\* segments.py:114-127: the padding loop, the early return on an empty list,
\* the sort, and the start of the first run.
pm_PadSort ==
    /\ pm_pc = "call"
    /\ LET pd == PadSegments(segments, padding)
       IN  IF pd = <<>>
           THEN /\ padded' = pd
                /\ pm_pc' = "done"
                /\ UNCHANGED <<pm_i, cur_start, cur_end, merged>>
           ELSE /\ padded' = SortByStart(pd)
                /\ cur_start' = padded'[1][1]
                /\ cur_end' = padded'[1][2]
                /\ merged' = <<>>
                /\ pm_i' = 2
                /\ pm_pc' = "sweep"
    /\ UNCHANGED <<segments, padding, merge_gap, min_duration, reapplied>>
    /\ UNCHANGED exceptMerge

\* segments.py:128-134: one iteration of the for loop.
pm_Sweep ==
    /\ pm_pc = "sweep"
    /\ pm_i <= Len(padded)
    /\ LET st == SweepStep([cur_start |-> cur_start, cur_end |-> cur_end,
                            merged |-> merged],
                           padded[pm_i], merge_gap, min_duration)
       IN  /\ cur_start' = st.cur_start
           /\ cur_end' = st.cur_end
           /\ merged' = st.merged
    /\ pm_i' = pm_i + 1
    /\ UNCHANGED <<pm_pc, segments, padding, merge_gap, min_duration, padded,
                   reapplied>>
    /\ UNCHANGED exceptMerge

\* segments.py:136-138: close the final run and return.
pm_Final ==
    /\ pm_pc = "sweep"
    /\ pm_i > Len(padded)
    /\ merged' = CloseRun([cur_start |-> cur_start, cur_end |-> cur_end,
                           merged |-> merged], min_duration)
    /\ pm_pc' = "done"
    /\ UNCHANGED <<segments, padding, merge_gap, min_duration, padded, pm_i,
                   cur_start, cur_end, reapplied>>
    /\ UNCHANGED exceptMerge

\* A second call on the first call's result: pad_and_merge(R, 0, 0, m).
pm_Reapply ==
    /\ pm_pc = "done"
    /\ reapplied' = pad_and_merge(merged, 0, 0, min_duration)
    /\ pm_pc' = "reapplied"
    /\ UNCHANGED <<segments, padding, merge_gap, min_duration, padded, pm_i,
                   cur_start, cur_end, merged>>
    /\ UNCHANGED exceptMerge

NextMerge == pm_PadSort \/ pm_Sweep \/ pm_Final \/ pm_Reapply

SpecMerge == InitMerge /\ [][NextMerge]_vars

\* The step-wise run and the function as a whole agree.
MergeStepsAgree ==
    pm_pc \in {"done", "reapplied"} =>
        merged = pad_and_merge(segments, padding, merge_gap, min_duration)

(***************************************************************************)
(* Claims about pad_and_merge, checked under SpecMerge.                    *)
(***************************************************************************)
Duration(iv) == iv[2] - iv[1]

Covers(span, iv) == span[1] <= iv[1] /\ iv[2] <= span[2]

\* Ascending by start and pairwise non-overlapping: each span starts after
\* the previous span ends.
SpansSeparate(r) ==
    \A k \in 1..(Len(r) - 1) : r[k + 1][1] > r[k][1] /\ r[k + 1][1] > r[k][2]

SpansProper(r) == \A k \in 1..Len(r) : r[k][1] >= 0 /\ r[k][2] > r[k][1]

\* C3 as stated: for every padding, merge_gap and min_duration the result is
\* ascending, pairwise non-overlapping, and each span has start >= 0 and
\* end > start.  (Fails for a negative merge_gap.)
C3_Original ==
    pm_pc = "done" => SpansSeparate(merged) /\ SpansProper(merged)

\* C3 amended: for every padding and min_duration and every merge_gap >= 0,
\* the result of pad_and_merge is ascending by start, pairwise
\* non-overlapping, and each span has start >= 0 and end > start.
C3_Amended ==
    (pm_pc = "done" /\ merge_gap >= 0) =>
        SpansSeparate(merged) /\ SpansProper(merged)

\* An unsorted input whose padded intervals were both coalesced and split.
C3_Witness ==
    /\ pm_pc = "done"
    /\ merge_gap >= 0
    /\ Len(segments) = 3
    /\ segments[1][1] > segments[2][1]
    /\ Len(padded) = 3
    /\ Len(merged) = 2

\* C4 as stated: for every padding p, merge_gap g and min_duration m, with
\* R = pad_and_merge(I, p, g, m), pad_and_merge(R, 0, 0, m) = R.
\* (Fails for a negative merge_gap.)
C4_Original == pm_pc = "reapplied" => reapplied = merged

\* C4 amended: for every input list I, padding p, min_duration m and every
\* merge_gap g >= 0, with R = pad_and_merge(I, p, g, m),
\* pad_and_merge(R, padding=0, merge_gap=0, min_duration=m) returns R.
C4_Amended ==
    (pm_pc = "reapplied" /\ merge_gap >= 0) => reapplied = merged

\* A re-application to a result of two spans, got with padding and coalescing.
C4_Witness ==
    /\ pm_pc = "reapplied"
    /\ merge_gap >= 0
    /\ padding > 0
    /\ Len(merged) = 2
    /\ Len(padded) > Len(merged)

\* C5: in the sweep, the next interval is coalesced into the running span
\* exactly when its start <= cur_end + merge_gap (inclusive), cur_end then
\* becoming the maximum end of the run; otherwise the run is closed and a new
\* run starts at that interval.
C5_SweepRule ==
    [][(pm_pc = "sweep" /\ pm_i <= Len(padded)) =>
          LET iv == padded[pm_i]
          IN  IF iv[1] <= cur_end + merge_gap
              THEN /\ cur_start' = cur_start
                   /\ cur_end' = Max(cur_end, iv[2])
                   /\ merged' = merged
                   /\ pm_pc' = "sweep"
              ELSE /\ cur_start' = iv[1]
                   /\ cur_end' = iv[2]
                   /\ merged' \in {merged, Append(merged, <<cur_start, cur_end>>)}
                   /\ pm_pc' = "sweep"]_vars

\* Two intervals whose gap is exactly merge_gap > 0 were merged into one span.
C5_Witness ==
    /\ pm_pc = "done"
    /\ merge_gap = 1
    /\ Len(padded) = 2
    /\ padded[2][1] = padded[1][2] + merge_gap
    /\ merged = << <<padded[1][1], padded[2][2]>> >>

KeptIfLongEnough ==
    IF cur_end - cur_start >= min_duration
    THEN Append(merged, <<cur_start, cur_end>>)
    ELSE merged

\* C6: min_duration is applied to closed runs only, after padding and
\* merging: a run closed in the sweep, and the final run, is appended to the
\* output iff its duration cur_end - cur_start >= min_duration; coalescing
\* appends nothing; so every output span is at least min_duration long.
C6_MinDurationOnRuns ==
    /\ [][pm_pc = "sweep" =>
            IF pm_i <= Len(padded) /\ padded[pm_i][1] <= cur_end + merge_gap
            THEN merged' = merged
            ELSE merged' = KeptIfLongEnough]_vars
    /\ [](pm_pc = "done" =>
            \A k \in 1..Len(merged) : Duration(merged[k]) >= min_duration)

\* A padded interval shorter than min_duration is covered by an output span
\* (it merged with a neighbour into a run that is long enough).
C6_Witness ==
    /\ pm_pc = "done"
    /\ min_duration = 2
    /\ \E k \in 1..Len(padded) :
          /\ Duration(padded[k]) < min_duration
          /\ \E j \in 1..Len(merged) : Covers(merged[j], padded[k])

(***************************************************************************)
(* Strings.  A string is a sequence of characters; the characters of the   *)
(* model are two letters in both cases, a full stop and an ASCII hyphen    *)
(* (both in string.punctuation), a space, and "ndash", which stands for    *)
(* the non-ASCII members of _DASH_RE (not in string.punctuation).          *)
(***************************************************************************)
Whitespace == {" "}
Punctuation == {".", "-"}
DashChars == {"-", "ndash"}

\* str.lower on one character.
LowerChar(c) == CASE c = "A" -> "a" [] c = "B" -> "b" [] OTHER -> c

LowerStr(s) == [k \in 1..Len(s) |-> LowerChar(s[k])]

RECURSIVE LStrip(_, _)
LStrip(s, cs) ==
    IF s # <<>> /\ Head(s) \in cs THEN LStrip(Tail(s), cs) ELSE s

RECURSIVE RStrip(_, _)
RStrip(s, cs) ==
    IF s # <<>> /\ s[Len(s)] \in cs
    THEN RStrip(SubSeq(s, 1, Len(s) - 1), cs)
    ELSE s

\* str.strip(chars): strip both ends.
Strip(s, cs) == RStrip(LStrip(s, cs), cs)

RECURSIVE SplitRec(_, _, _)
\* re.split on a one-character separator class: every part, empty ones too.
SplitRec(s, seps, cur) ==
    IF s = <<>> THEN <<cur>>
    ELSE IF Head(s) \in seps
         THEN <<cur>> \o SplitRec(Tail(s), seps, <<>>)
         ELSE SplitRec(Tail(s), seps, Append(cur, Head(s)))

NonEmpty(parts) == SelectSeq(parts, LAMBDA x : x # <<>>)

\* segments.py:22-25.
normalize_token(token) ==
    Strip(LowerStr(Strip(token, Whitespace)), Punctuation)

\* segments.py:28-34: str.split() yields the non-empty whitespace-free pieces.
normalize_query(query) ==
    LET raw == NonEmpty(SplitRec(query, Whitespace, <<>>))
    IN  NonEmpty([k \in 1..Len(raw) |-> normalize_token(raw[k])])

\* segments.py:37 and 48: _DASH_RE.search(token).
HasDash(token) == \E k \in 1..Len(token) : token[k] \in DashChars

split_compound_KeepEmpty(token) == SplitRec(token, DashChars, <<>>)

\* segments.py:40-41: _split_compound.
split_compound(token) == NonEmpty(SplitRec(token, DashChars, <<>>))

\* str.startswith.
StartsWith(token, query) ==
    Len(query) <= Len(token) /\ SubSeq(token, 1, Len(query)) = query

\* `query in token` for strings.
Contains(token, query) ==
    \E k \in 1..(Len(token) + 1) :
        /\ k + Len(query) - 1 <= Len(token)
        /\ SubSeq(token, k, k + Len(query) - 1) = query

\* What a call did: it returned a value, or it raised.
Returned(v) == [exc |-> "none", value |-> v]
Raised(e) == [exc |-> e]

\* segments.py:44-55.
token_matches(token, query, mode) ==
    CASE mode = "exact" ->
            Returned(IF token = query THEN TRUE
                     ELSE IF HasDash(token)
                          THEN LET parts == split_compound(token)
                               IN  \E k \in 1..Len(parts) : parts[k] = query
                          ELSE FALSE)
      [] mode = "prefix" -> Returned(StartsWith(token, query))
      [] mode = "substring" -> Returned(Contains(token, query))
      [] OTHER -> Raised("ValueError")

(***************************************************************************)
(* token_matches on every pair of short strings and every mode, one of     *)
(* them unknown.                                                           *)
(***************************************************************************)
TokenAlphabet == {"a", "b", "-", "ndash"}
TokenStrings == SeqsUpTo(TokenAlphabet, MaxTokLen)
MatchModes == {"exact", "prefix", "substring"}
AnyModes == MatchModes \cup {"regex"}

InitToken ==
    /\ tm_pc = "call"
    /\ tm_token \in TokenStrings
    /\ tm_query \in TokenStrings
    /\ tm_mode \in AnyModes
    /\ tm_result = [exc |-> "pending"]
    /\ TokenRest

tm_Call ==
    /\ tm_pc = "call"
    /\ tm_result' = token_matches(tm_token, tm_query, tm_mode)
    /\ tm_pc' = "done"
    /\ UNCHANGED <<tm_token, tm_query, tm_mode>>
    /\ UNCHANGED exceptToken

NextToken == tm_Call

SpecToken == InitToken /\ [][NextToken]_vars

\* query is a non-empty dash-free stretch of token, bounded on each side by
\* a dash-like character or by the end of token.
IsDashComponent(token, query) ==
    /\ query # <<>>
    /\ ~HasDash(query)
    /\ \E i \in 1..Len(token) :
          LET j == i + Len(query) - 1
          IN  /\ j <= Len(token)
              /\ SubSeq(token, i, j) = query
              /\ (i = 1 \/ token[i - 1] \in DashChars)
              /\ (j = Len(token) \/ token[j + 1] \in DashChars)

\* C7: in mode exact token_matches returns true iff token = query, or token
\* holds a dash-like separator and one of its non-empty dash-split
\* components equals query; so a dash-free token matches only by equality and
\* a query with a dash never matches a different token; an unknown mode
\* raises instead of returning.
C7_ExactAndUnknownMode ==
    tm_pc = "done" =>
        /\ tm_mode = "exact" =>
              /\ tm_result.exc = "none"
              /\ tm_result.value <=>
                    \/ tm_token = tm_query
                    \/ HasDash(tm_token) /\ IsDashComponent(tm_token, tm_query)
              /\ ~HasDash(tm_token) => (tm_result.value <=> tm_token = tm_query)
              /\ (HasDash(tm_query) /\ tm_token # tm_query) => ~tm_result.value
        /\ tm_mode \in {"prefix", "substring"} => tm_result.exc = "none"
        /\ tm_mode \notin MatchModes => tm_result = Raised("ValueError")

\* The token a-b matched the query b in mode exact, by its second component.
C7_Witness ==
    /\ tm_pc = "done"
    /\ tm_mode = "exact"
    /\ tm_token = <<"a", "-", "b">>
    /\ tm_query = <<"b">>
    /\ tm_result = Returned(TRUE)

(***************************************************************************)
(* find_phrase_matches and find_any_phrase_matches, segments.py:58-90.     *)
(* A Word is [start, end, norm] (segments.py:7-12; `text` is not read by   *)
(* the matcher).  The match mode is one the command line admits            *)
(* (cli.py:60-65), so token_matches returns.                               *)
(***************************************************************************)

\* segments.py:68-72: every phrase token matches at window i (1-based).
WindowMatches(words, phrase, i, mode) ==
    \A j \in 1..Len(phrase) :
        token_matches(words[i + j - 1].norm, phrase[j], mode).value

RECURSIVE FindFromSkipping(_, _, _, _)
FindFromSkipping(words, phrase, i, mode) ==
    IF i + Len(phrase) - 1 > Len(words) THEN <<>>
    ELSE IF WindowMatches(words, phrase, i, mode)
         THEN << <<words[i].start, words[i + Len(phrase) - 1].end>> >>
              \o FindFromSkipping(words, phrase, i + Len(phrase), mode)
         ELSE FindFromSkipping(words, phrase, i + 1, mode)

find_phrase_matches_Skipping(words, phrase, mode) ==
    IF phrase = <<>> THEN <<>> ELSE FindFromSkipping(words, phrase, 1, mode)

RECURSIVE FindFrom(_, _, _, _)
\* segments.py:67-76: the loop from window i on; range(max_i + 1) is empty
\* when the phrase is longer than the word list.
FindFrom(words, phrase, i, mode) ==
    IF i + Len(phrase) - 1 > Len(words) THEN <<>>
    ELSE (IF WindowMatches(words, phrase, i, mode)
          THEN << <<words[i].start, words[i + Len(phrase) - 1].end>> >>
          ELSE <<>>)
         \o FindFrom(words, phrase, i + 1, mode)

\* segments.py:58-77.
find_phrase_matches(words, phrase, mode) ==
    IF phrase = <<>> THEN <<>> ELSE FindFrom(words, phrase, 1, mode)

RECURSIVE find_any_phrase_matches(_, _, _)
\* segments.py:80-90.
find_any_phrase_matches(words, phrases, mode) ==
    IF phrases = <<>> THEN <<>>
    ELSE (IF Head(phrases) = <<>> THEN <<>>
          ELSE find_phrase_matches(words, Head(phrases), mode))
         \o find_any_phrase_matches(words, Tail(phrases), mode)

(***************************************************************************)
(* Inputs: word lists over three normalized tokens, the k-th word spoken   *)
(* from 2(k-1) to 2k-1; lists of phrases of one or two query tokens, the   *)
(* empty phrase among them.                                                *)
(***************************************************************************)
WordNorms == {<<"a">>, <<"b">>, <<"a", "-", "b">>}

WordsOf(norms) ==
    [k \in 1..Len(norms) |->
        [start |-> 2 * (k - 1), end |-> 2 * k - 1, norm |-> norms[k]]]

WordLists == {WordsOf(ns) : ns \in SeqsUpTo(WordNorms, MaxWords)}
Phrases ==
    {<<>>, << <<"a">> >>, << <<"b">> >>, << <<"a">>, <<"a">> >>,
     << <<"a">>, <<"b">> >>}
PhraseLists == SeqsUpTo(Phrases, MaxPhrases)

InitPhrase ==
    /\ fa_pc = "loop"
    /\ fa_words \in WordLists
    /\ fa_phrases \in PhraseLists
    /\ fa_mode \in MatchModes
    /\ fa_k = 1
    /\ fa_matches = <<>>
    /\ PhraseRest

\* segments.py:86-89: one iteration of the loop over phrases.
fa_Phrase ==
    /\ fa_pc = "loop"
    /\ fa_k <= Len(fa_phrases)
    /\ fa_matches' =
          IF fa_phrases[fa_k] = <<>> THEN fa_matches
          ELSE fa_matches
               \o find_phrase_matches(fa_words, fa_phrases[fa_k], fa_mode)
    /\ fa_k' = fa_k + 1
    /\ UNCHANGED <<fa_pc, fa_words, fa_phrases, fa_mode>>
    /\ UNCHANGED exceptPhrase

\* segments.py:90: return matches.
fa_Return ==
    /\ fa_pc = "loop"
    /\ fa_k > Len(fa_phrases)
    /\ fa_pc' = "done"
    /\ UNCHANGED <<fa_words, fa_phrases, fa_mode, fa_k, fa_matches>>
    /\ UNCHANGED exceptPhrase

NextPhrase == fa_Phrase \/ fa_Return

SpecPhrase == InitPhrase /\ [][NextPhrase]_vars

\* The start indices (1-based) at which all positional matches hold.
HitIndices(words, phrase, mode) ==
    {i \in 1..Len(words) :
        /\ phrase # <<>>
        /\ i + Len(phrase) - 1 <= Len(words)
        /\ \A j \in 1..Len(phrase) :
              token_matches(words[i + j - 1].norm, phrase[j], mode)
                  = Returned(TRUE)}

\* One interval per hit index, in ascending order of the index.
HitIntervals(words, phrase, mode) ==
    LET H == HitIndices(words, phrase, mode)
    IN  [k \in 1..Cardinality(H) |->
            LET i == CHOOSE x \in H : Cardinality({y \in H : y < x}) = k - 1
            IN  <<words[i].start, words[i + Len(phrase) - 1].end>>]

RECURSIVE ConcatHits(_, _, _, _)
\* The hit intervals of phrases[1..n], concatenated in phrase order.
ConcatHits(words, phrases, n, mode) ==
    IF n = 0 THEN <<>>
    ELSE ConcatHits(words, phrases, n - 1, mode)
         \o HitIntervals(words, phrases[n], mode)

\* C8: find_phrase_matches yields exactly one interval
\* (words[i].start, words[i+n-1].end) per start index i at which all n
\* positional matches hold, in ascending order of i, overlapping windows
\* included, and nothing for an empty or too long phrase;
\* find_any_phrase_matches is the concatenation of these in phrase order,
\* without deduplication.
C8_AllWindows ==
    /\ fa_pc \in {"loop", "done"} =>
          fa_matches = ConcatHits(fa_words, fa_phrases, fa_k - 1, fa_mode)
    /\ fa_pc = "done" =>
          /\ fa_k = Len(fa_phrases) + 1
          /\ fa_matches
                = find_any_phrase_matches(fa_words, fa_phrases, fa_mode)

\* A two-token phrase hit two overlapping windows of a three-word list, and
\* the same phrase given twice was reported twice.
C8_Witness ==
    /\ fa_pc = "done"
    /\ Len(fa_words) = 3
    /\ fa_phrases = << <<<<"a">>, <<"a">>>>, <<<<"a">>, <<"a">>>> >>
    /\ fa_mode = "exact"
    /\ fa_matches = << <<0, 3>>, <<2, 5>>, <<0, 3>>, <<2, 5>> >>

(***************************************************************************)
(* tokens_contain_phrase (segments.py:93-105) and match_subtitle_segments  *)
(* (subtitles.py:84-94).  A cue is [start, end, text]                      *)
(* (subtitles.py:10-14).                                                   *)
(***************************************************************************)

\* segments.py:98-102: every phrase token matches at window i (1-based).
TokensMatchAt(tokens, phrase, i, mode) ==
    \A j \in 1..Len(phrase) :
        token_matches(tokens[i + j - 1], phrase[j], mode).value

RECURSIVE ContainsFrom(_, _, _, _, _)
\* segments.py:97-105: the loop from window i up to window last, returning
\* at the first hit.
ContainsFrom(tokens, phrase, i, last, mode) ==
    IF i > last THEN FALSE
    ELSE IF TokensMatchAt(tokens, phrase, i, mode) THEN TRUE
         ELSE ContainsFrom(tokens, phrase, i + 1, last, mode)

tokens_contain_phrase_ShortRange(tokens, phrase, mode) ==
    IF phrase = <<>> THEN FALSE
    ELSE ContainsFrom(tokens, phrase, 1, Len(tokens) - Len(phrase), mode)

\* segments.py:93-105.
tokens_contain_phrase(tokens, phrase, mode) ==
    IF phrase = <<>> THEN FALSE
    ELSE ContainsFrom(tokens, phrase, 1, Len(tokens) - Len(phrase) + 1, mode)

\* subtitles.py:91-92: the test of one cue.
CueMatches(seg, phrases, mode) ==
    LET tokens == normalize_query(seg.text)
    IN  \E p \in 1..Len(phrases) :
            tokens_contain_phrase(tokens, phrases[p], mode)

\* subtitles.py:84-94.
match_subtitle_segments(segs, phrases, mode) ==
    SelectSeq(segs, LAMBDA seg : CueMatches(seg, phrases, mode))

(***************************************************************************)
(* Inputs: cue lists over six texts (two words, a capital and a full stop, *)
(* a hyphenated compound, punctuation only, two spaces in a row, a         *)
(* compound with a non-ASCII dash), the k-th cue shown from 2(k-1) to      *)
(* 2k-1.                                                                   *)
(***************************************************************************)
CueTexts ==
    {<<"a", " ", "b">>, <<"B", ".">>, <<"a", "-", "b">>, <<"-">>,
     <<"b", " ", " ", "A">>, <<"a", "ndash", "b">>}

CuesOf(texts) ==
    [k \in 1..Len(texts) |->
        [start |-> 2 * (k - 1), end |-> 2 * k - 1, text |-> texts[k]]]

CueLists == {CuesOf(ts) : ts \in SeqsUpTo(CueTexts, MaxCues)}

InitSubs ==
    /\ ms_pc = "loop"
    /\ ms_segments \in CueLists
    /\ ms_phrases \in PhraseLists
    /\ ms_mode \in MatchModes
    /\ ms_k = 1
    /\ ms_matches = <<>>
    /\ SubsRest

\* subtitles.py:90-93: one iteration of the loop over the cues.
ms_Cue ==
    /\ ms_pc = "loop"
    /\ ms_k <= Len(ms_segments)
    /\ ms_matches' =
          IF CueMatches(ms_segments[ms_k], ms_phrases, ms_mode)
          THEN Append(ms_matches, ms_segments[ms_k])
          ELSE ms_matches
    /\ ms_k' = ms_k + 1
    /\ UNCHANGED <<ms_pc, ms_segments, ms_phrases, ms_mode>>
    /\ UNCHANGED exceptSubs

\* subtitles.py:94: return matches.
ms_Return ==
    /\ ms_pc = "loop"
    /\ ms_k > Len(ms_segments)
    /\ ms_pc' = "done"
    /\ UNCHANGED <<ms_segments, ms_phrases, ms_mode, ms_k, ms_matches>>
    /\ UNCHANGED exceptSubs

NextSubs == ms_Cue \/ ms_Return

SpecSubs == InitSubs /\ [][NextSubs]_vars

\* Some phrase of the set occurs as a contiguous window of the cue's
\* normalized tokens: find_phrase_matches over these tokens is non-empty.
CueHasPhrase(seg, phrases, mode) ==
    \E p \in 1..Len(phrases) :
        find_phrase_matches(WordsOf(normalize_query(seg.text)),
                            phrases[p], mode) # <<>>

\* C9: match_subtitle_segments returns exactly the cues in which some phrase
\* of the set occurs as a contiguous window of the normalized tokens
\* (find_phrase_matches over them is non-empty), whole and unmodified, in
\* file order, each once.
C9_CoarseMatch ==
    /\ ms_pc \in {"loop", "done"} =>
          ms_matches =
              SelectSeq(SubSeq(ms_segments, 1, ms_k - 1),
                        LAMBDA seg : CueHasPhrase(seg, ms_phrases, ms_mode))
    /\ ms_pc = "done" =>
          /\ ms_k = Len(ms_segments) + 1
          /\ ms_matches
                = match_subtitle_segments(ms_segments, ms_phrases, ms_mode)

\* With the phrase set a OR b: a cue of punctuation only was left out, and a
\* cue that holds both a and b was returned once.
C9_Witness ==
    /\ ms_pc = "done"
    /\ ms_phrases = << << <<"a">> >>, << <<"b">> >> >>
    /\ ms_mode = "exact"
    /\ Len(ms_segments) = 2
    /\ ms_segments[1].text = <<"-">>
    /\ ms_segments[2].text = <<"b", " ", " ", "A">>
    /\ ms_matches = <<ms_segments[2]>>

(***************************************************************************)
(* transcribe, asr.py:58-102.  The engine is a collaborator: what it       *)
(* rejects is drawn at the start.  A call with a keyword the callee does   *)
(* not accept raises TypeError; rejects_batched are the keywords           *)
(* BatchedInferencePipeline.transcribe rejects, rejects_plain those        *)
(* WhisperModel.transcribe rejects.                                        *)
(***************************************************************************)

\* asr.py:67-75: the keys of the options dict.
Options(lang, vad, vad_params) ==
    {"word_timestamps"}
        \cup (IF lang # "None" THEN {"language"} ELSE {})
        \cup (IF vad THEN {"vad_filter"} ELSE {})
        \cup (IF vad_params # "None" THEN {"vad_parameters"} ELSE {})

\* asr.py:89.
Stripped(options) == options \ {"vad_filter", "vad_parameters"}

\* asr.py:85 and 92: pipeline.transcribe(audio_path, batch_size=..., **opts).
BatchedAccepts(opts) == (opts \cup {"batch_size"}) \cap rejects_batched = {}

\* asr.py:38: model.transcribe(audio_path, **options).
PlainAccepts(opts) == opts \cap rejects_plain = {}

OptionalKeywords == {"language", "vad_filter", "vad_parameters"}

InitAsr ==
    /\ asr_pc = "start"
    /\ language \in {"None", "en"}
    /\ vad_filter \in BOOLEAN
    /\ vad_parameters \in {"None", "set"}
    /\ batch_size \in 0..MaxBatch
    /\ batched_available \in BOOLEAN
    /\ rejects_batched \in SUBSET (OptionalKeywords \cup {"batch_size"})
    /\ rejects_plain \in SUBSET OptionalKeywords
    /\ attempts = <<>>
    /\ warnings = <<>>
    /\ asr_result = [exc |-> "pending"]
    /\ AsrRest

asrInputs == <<language, vad_filter, vad_parameters, batch_size,
               batched_available, rejects_batched, rejects_plain>>

\* asr.py:66-83: build the options, choose batched or plain.
tr_Start ==
    /\ asr_pc = "start"
    /\ IF batch_size > 1
       THEN IF ~batched_available
            THEN /\ warnings' = Append(warnings, "batched inference not available")
                 /\ asr_pc' = "plain"
            ELSE /\ asr_pc' = "batched_all"
                 /\ UNCHANGED warnings
       ELSE /\ asr_pc' = "plain"
            /\ UNCHANGED warnings
    /\ UNCHANGED <<asrInputs, attempts, asr_result>>
    /\ UNCHANGED exceptAsr

\* asr.py:84-90 and 98-99: (a) batched with all options.
tr_BatchedAll ==
    /\ asr_pc = "batched_all"
    /\ attempts' = Append(attempts, "a")
    /\ LET options == Options(language, vad_filter, vad_parameters)
       IN  IF BatchedAccepts(options)
           THEN /\ asr_result' = Returned("words")
                /\ asr_pc' = "done"
                /\ UNCHANGED warnings
           ELSE IF Stripped(options) # options
                THEN /\ asr_pc' = "batched_no_vad"
                     /\ UNCHANGED <<warnings, asr_result>>
                ELSE /\ warnings' = Append(warnings, "batched inference rejected options")
                     /\ asr_pc' = "plain"
                     /\ UNCHANGED asr_result
    /\ UNCHANGED asrInputs
    /\ UNCHANGED exceptAsr

\* asr.py:91-97: (b) batched without the VAD options.
tr_BatchedNoVad ==
    /\ asr_pc = "batched_no_vad"
    /\ attempts' = Append(attempts, "b")
    /\ IF BatchedAccepts(Stripped(Options(language, vad_filter, vad_parameters)))
       THEN /\ warnings' = Append(warnings, "batched inference ignored VAD options")
            /\ asr_result' = Returned("words")
            /\ asr_pc' = "done"
       ELSE /\ warnings' = Append(warnings, "batched inference rejected options")
            /\ asr_pc' = "plain"
            /\ UNCHANGED asr_result
    /\ UNCHANGED asrInputs
    /\ UNCHANGED exceptAsr

\* asr.py:80-81 and 101-102: (c) non-batched with all options; nothing
\* catches what _transcribe_with_model raises.
tr_Plain ==
    /\ asr_pc = "plain"
    /\ attempts' = Append(attempts, "c")
    /\ asr_result' =
          IF PlainAccepts(Options(language, vad_filter, vad_parameters))
          THEN Returned("words")
          ELSE Raised("TypeError")
    /\ asr_pc' = "done"
    /\ UNCHANGED <<asrInputs, warnings>>
    /\ UNCHANGED exceptAsr

NextAsr == tr_Start \/ tr_BatchedAll \/ tr_BatchedNoVad \/ tr_Plain

SpecAsr == InitAsr /\ [][NextAsr]_vars

\* The attempts are made in the order (a), (b), (c), each after the one
\* before it was rejected, skipped or unavailable.
LadderOrder ==
    /\ attempts \in {<<>>, <<"a">>, <<"a", "b">>, <<"a", "c">>,
                     <<"a", "b", "c">>, <<"c">>}
    /\ (asr_pc = "done" /\ asr_result.exc = "none") =>
          /\ attempts # <<>>
          /\ attempts[Len(attempts)] = "a" =>
                BatchedAccepts(Options(language, vad_filter, vad_parameters))
          /\ attempts[Len(attempts)] = "c" =>
                PlainAccepts(Options(language, vad_filter, vad_parameters))

\* C10: whichever option sets the engine rejects, transcribe ends by
\* returning words and warnings; it never lets the rejection out.
\* (Fails: a rejection at step (c) is raised to the caller.)
C10_NeverRaises == asr_pc = "done" => asr_result.exc = "none"

(***************************************************************************)
(* main, cli.py:97-271.  The collaborators (ffmpeg, the subtitle reader,   *)
(* the ASR engine) answer nondeterministically at each call.  The timing   *)
(* totals (cli.py:130-135) are only printed and are left out.              *)
(***************************************************************************)

\* asr.py:42-55: the words of an engine response, normalized, those with an
\* empty norm dropped.
collect_segments(resp) ==
    LET ws == [k \in 1..Len(resp) |->
                 [start |-> resp[k].start, end |-> resp[k].end,
                  norm |-> normalize_token(resp[k].word)]]
    IN  SelectSeq(ws, LAMBDA w : w.norm # <<>>)

\* cli.py:115-116: the phrases of the search strings, empty ones dropped.
QueryTokensList(search) ==
    NonEmpty([k \in 1..Len(search) |-> normalize_query(search[k])])

RefinedForUnshifted(seg, local_matches) ==
    IF local_matches # <<>> THEN local_matches
    ELSE << <<seg.start, seg.end>> >>

RefinedForNoFallback(seg, local_matches) ==
    [k \in 1..Len(local_matches) |->
        <<seg.start + local_matches[k][1], seg.start + local_matches[k][2]>>]

\* cli.py:203-207: what one transcribed cue appends to `refined`.
RefinedFor(seg, local_matches) ==
    IF local_matches # <<>>
    THEN [k \in 1..Len(local_matches) |->
            <<seg.start + local_matches[k][1], seg.start + local_matches[k][2]>>]
    ELSE << <<seg.start, seg.end>> >>

\* cli.py:217-223: per span, the raw intervals that touch it.
CounterCounts(spans, raw) ==
    [s \in 1..Len(spans) |->
        Cardinality({m \in 1..Len(raw) :
            raw[m][2] >= spans[s][1] /\ raw[m][1] <= spans[s][2]})]

RECURSIVE SumSeq(_)
SumSeq(s) == IF s = <<>> THEN 0 ELSE Head(s) + SumSeq(Tail(s))

ClipPathsReversed(i, spans) ==
    SelectSeq([n \in 1..Len(spans) |-> <<i, Len(spans) + 1 - n>>],
              LAMBDA c : spans[c[2]][2] - spans[c[2]][1] > 0)

\* ffmpeg.py:82-131: one clip path per span (every span has end > start).
ClipPaths(i, spans) ==
    SelectSeq([n \in 1..Len(spans) |-> <<i, n>>],
              LAMBDA c : spans[c[2]][2] - spans[c[2]][1] > 0)

\* ffmpeg.py:48-71: a cue with end <= start raises ValueError; otherwise
\* ffmpeg succeeds or fails (RuntimeError).
ExtractOutcomes(seg) ==
    IF seg.end <= seg.start THEN {"ValueError"} ELSE {"none", "RuntimeError"}

(***************************************************************************)
(* Inputs of main: one to MaxInputs subtitle sources out of four (two       *)
(* matching cues; an unmatched cue and a zero-length one; one unmatched    *)
(* cue; three matching cues, one of zero length), the command line's       *)
(* options, and the engine's possible responses for a window (times local  *)
(* to the window).                                                         *)
(***************************************************************************)
CueAB == [start |-> 0, end |-> 2, text |-> <<"a", " ", "b">>]
CueDash == [start |-> 1, end |-> 2, text |-> <<"-">>]
CueZero == [start |-> 3, end |-> 3, text |-> <<"a">>]
CueB == [start |-> 4, end |-> 6, text |-> <<"B", ".">>]

SubtitleFiles ==
    {<<CueAB, CueB>>, <<CueDash, CueZero>>, <<CueDash>>,
     <<CueAB, CueZero, CueB>>}

InputLists == SeqsUpTo(SubtitleFiles, MaxInputs) \ {<<>>}

SearchLists ==
    {<<>>, << <<".">> >>, << <<"a">> >>, << <<"a">>, <<"B", ".">> >>}

MergeArgs == {<<0, 0, 0>>, <<1, 1, 2>>, <<1, -3, 0>>}

AsrResponses ==
    {<<>>,
     <<[start |-> 0, end |-> 1, word |-> <<"B", ".">>]>>,
     <<[start |-> 0, end |-> 1, word |-> <<"a">>],
       [start |-> 1, end |-> 2, word |-> <<" ", "A">>]>>,
     <<[start |-> 0, end |-> 1, word |-> <<".">>]>>}

\* asr.py:58-102 as main calls it (batch_size=1, no VAD): the words of the
\* response, or the engine's rejection raised (asr.py:101).
TranscribeOutcomes ==
    {Returned(collect_segments(r)) : r \in AsrResponses}
        \cup {Raised("TypeError")}

InitMain ==
    /\ main_pc = "args"
    /\ inputs \in InputLists
    /\ \E n \in {0, Len(inputs), Len(inputs) + 1}, media \in BOOLEAN,
          search \in SearchLists, ps \in BOOLEAN, ma \in MergeArgs :
          args = [n_subtitles |-> n, subtitles_from_media |-> media,
                  search |-> search, print_segments |-> ps,
                  padding |-> ma[1], merge_gap |-> ma[2],
                  min_duration |-> ma[3], match_mode |-> "exact"]
    /\ query_tokens_list = <<>>
    /\ tmpdir = "none"
    /\ idx = 0
    /\ matched_subs = <<>>
    /\ cue_k = 0
    /\ refined = <<>>
    /\ cue_log = <<>>
    /\ raw_matches = <<>>
    /\ file_segments = <<>>
    /\ all_clips = <<>>
    /\ counter_index = 0
    /\ merge_log = <<>>
    /\ artifacts = {}
    /\ exit = [code |-> -1, message |-> ""]
    /\ MainRest

\* The values main returns (the process exit status): cli.py:103, 106, 109
\* and 114 for a contradictory or incomplete command line; cli.py:119, 125,
\* 153, 160 and 256 for an unusable query, input or tool; cli.py:249 when
\* no clip was cut; cli.py:245 and 271 on success.
EXIT_CONFIGURATION == 2
EXIT_INPUT == 1
EXIT_NO_MATCHES == 2
EXIT_SUCCESS == 0

\* The kinds of intermediate file: "srt", the subtitles extracted from an
\* input (cli.py:144); "wav", the audio window of a cue (cli.py:168);
\* "clip", the clip of a span (ffmpeg.py:84); "concat_list", the list file
\* of the concatenation (ffmpeg.py:144).  cli.py:144, 168 and 235 place
\* the first three in tmpdir; ffmpeg.py:144 places the list file beside the
\* output.
InTmpdir(a) == a \in {"srt", "wav", "clip"}

\* cli.py:138: what leaving the with block leaves of a set of files.
Outside(files) == {a \in files : ~InTmpdir(a)}

\* A return statement: the code and the message printed before it; leaving
\* the with block releases the temporary directory.
ReturnWith(code, message, written) ==
    /\ main_pc' = "returned"
    /\ exit' = [code |-> code, message |-> message]
    /\ tmpdir' = IF tmpdir = "held" THEN "released" ELSE tmpdir
    /\ artifacts' = Outside(artifacts \cup written)

Return(code, message) == ReturnWith(code, message, {})

\* ffmpeg.py:135-166: what concat_clips does with the clips main hands it,
\* and the files it has written and not removed when it is over.  One clip
\* is copied to the output.  For more, the list file is written, ffmpeg
\* runs and raises RuntimeError if it fails (the unlink is not reached), and
\* else the list file is unlinked, an OSError of the unlink being ignored.
ConcatOutcomes(clips) ==
    IF Len(clips) = 1
    THEN {[exc |-> "none", left |-> {}]}
    ELSE {[exc |-> "RuntimeError", left |-> {"concat_list"}],
          [exc |-> "none", left |-> {}],
          [exc |-> "none", left |-> {"concat_list"}]}

\* An exception nothing in main catches; it too leaves the with block.
Raise ==
    /\ main_pc' = "raised"
    /\ tmpdir' = IF tmpdir = "held" THEN "released" ELSE tmpdir
    /\ artifacts' = Outside(artifacts)
    /\ UNCHANGED exit

\* cli.py:101-119: the checks of the command line.
m_Validate ==
    /\ main_pc = "args"
    /\ LET qtl == QueryTokensList(args.search)
       IN  IF args.n_subtitles > 0 /\ args.subtitles_from_media
           THEN Return(EXIT_CONFIGURATION, "use either --subtitles or --subtitles-from-media, not both")
                /\ UNCHANGED query_tokens_list
           ELSE IF args.n_subtitles = 0 /\ ~args.subtitles_from_media
           THEN Return(EXIT_CONFIGURATION, "either --subtitles or --subtitles-from-media is required")
                /\ UNCHANGED query_tokens_list
           ELSE IF args.n_subtitles > 0 /\ args.n_subtitles # Len(inputs)
           THEN Return(EXIT_CONFIGURATION, "--subtitles must be provided once per input file")
                /\ UNCHANGED query_tokens_list
           ELSE IF args.search = <<>>
           THEN Return(EXIT_CONFIGURATION, "at least one --search is required")
                /\ UNCHANGED query_tokens_list
           ELSE IF qtl = <<>>
           THEN Return(EXIT_INPUT, "query has no searchable tokens")
                /\ query_tokens_list' = qtl
           ELSE /\ main_pc' = "setup"
                /\ query_tokens_list' = qtl
                /\ UNCHANGED <<exit, tmpdir, artifacts>>
    /\ UNCHANGED <<inputs, args, idx, matched_subs, cue_k, refined, cue_log,
                   raw_matches, file_segments, all_clips, counter_index,
                   merge_log>>
    /\ UNCHANGED exceptMain

\* cli.py:121-138: ensure_ffmpeg, the model, the temporary directory.
m_Setup ==
    /\ main_pc = "setup"
    /\ \/ /\ Return(EXIT_INPUT, "ffmpeg not found in PATH")
          /\ UNCHANGED idx
       \/ /\ main_pc' = "file"
          /\ tmpdir' = "held"
          /\ idx' = 1
          /\ UNCHANGED <<exit, artifacts>>
    /\ UNCHANGED <<inputs, args, query_tokens_list, matched_subs, cue_k,
                   refined, cue_log, raw_matches, file_segments, all_clips,
                   counter_index, merge_log>>
    /\ UNCHANGED exceptMain

\* cli.py:139-165: the subtitles of input idx and the coarse match.
m_File ==
    /\ main_pc = "file"
    /\ \/ /\ args.subtitles_from_media
          /\ Return(EXIT_INPUT, "failed to extract subtitles")
          /\ UNCHANGED <<matched_subs, cue_k, refined, cue_log, raw_matches>>
       \/ /\ Return(EXIT_INPUT, "failed to read subtitles")
          /\ UNCHANGED <<matched_subs, cue_k, refined, cue_log, raw_matches>>
       \/ /\ matched_subs' = match_subtitle_segments(inputs[idx],
                                 query_tokens_list, args.match_mode)
          /\ refined' = <<>>
          /\ raw_matches' = <<>>
          /\ cue_log' = <<>>
          /\ cue_k' = 1
          /\ main_pc' = "cue"
          /\ artifacts' = IF args.subtitles_from_media
                          THEN artifacts \cup {"srt"}
                          ELSE artifacts
          /\ UNCHANGED <<exit, tmpdir>>
    /\ UNCHANGED <<inputs, args, query_tokens_list, idx, file_segments,
                   all_clips, counter_index, merge_log>>
    /\ UNCHANGED exceptMain

\* cli.py:166-207: one iteration of the loop over the matched cues.
m_Cue ==
    /\ main_pc = "cue"
    /\ cue_k <= Len(matched_subs)
    /\ LET seg == matched_subs[cue_k]
       IN  \E ex \in ExtractOutcomes(seg) :
             IF ex # "none"
             THEN /\ cue_log' = Append(cue_log,
                         [exc |-> ex, words |-> <<>>, added |-> <<>>])
                  /\ cue_k' = cue_k + 1
                  /\ UNCHANGED <<main_pc, refined, tmpdir, artifacts, exit>>
             ELSE \E tr \in TranscribeOutcomes :
                    IF tr.exc # "none"
                    THEN /\ Raise
                         /\ UNCHANGED <<cue_k, refined, cue_log>>
                    ELSE LET local_matches ==
                                 find_any_phrase_matches(tr.value,
                                     query_tokens_list, args.match_mode)
                             added == RefinedFor(seg, local_matches)
                         IN  /\ refined' = refined \o added
                             /\ cue_log' = Append(cue_log,
                                    [exc |-> "none", words |-> tr.value,
                                     added |-> added])
                             /\ cue_k' = cue_k + 1
                             /\ artifacts' = artifacts \cup {"wav"}
                             /\ UNCHANGED <<main_pc, tmpdir, exit>>
    /\ UNCHANGED <<inputs, args, query_tokens_list, idx, matched_subs,
                   raw_matches, file_segments, all_clips, counter_index,
                   merge_log>>
    /\ UNCHANGED exceptMain

\* cli.py:208-214: the file's raw list and its one merge pass.
m_Merge ==
    /\ main_pc = "cue"
    /\ cue_k > Len(matched_subs)
    /\ raw_matches' = refined
    /\ file_segments' = pad_and_merge(refined, args.padding, args.merge_gap,
                                      args.min_duration)
    /\ merge_log' = Append(merge_log, idx)
    /\ main_pc' = "merged"
    /\ UNCHANGED <<inputs, args, query_tokens_list, tmpdir, idx, matched_subs,
                   cue_k, refined, cue_log, all_clips, counter_index,
                   artifacts, exit>>
    /\ UNCHANGED exceptMain

\* The for statement's step to the next input, or out of the loop.
NextInput ==
    /\ idx' = idx + 1
    /\ main_pc' = IF idx < Len(inputs) THEN "file" ELSE "finish"

\* cli.py:215-242: the counter labels, then print, skip or cut the clips.
m_Emit ==
    /\ main_pc = "merged"
    /\ LET counter_counts == CounterCounts(file_segments, raw_matches)
       IN  IF args.print_segments \/ file_segments = <<>>
           THEN /\ NextInput
                /\ UNCHANGED <<all_clips, counter_index, tmpdir, artifacts,
                               exit>>
           ELSE \/ LET clips == ClipPaths(idx, file_segments)
                   IN  /\ NextInput
                       /\ all_clips' = all_clips \o clips
                       /\ counter_index' =
                             counter_index + SumSeq(counter_counts)
                       /\ artifacts' = artifacts \cup
                             {"clip" : n \in 1..Len(clips)}
                       /\ UNCHANGED <<tmpdir, exit>>
                \/ /\ Raise
                   /\ UNCHANGED <<idx, all_clips, counter_index>>
    /\ UNCHANGED <<inputs, args, query_tokens_list, matched_subs, cue_k,
                   refined, cue_log, raw_matches, file_segments, merge_log>>
    /\ UNCHANGED exceptMain

\* cli.py:244-271: after the last input.
m_Finish ==
    /\ main_pc = "finish"
    /\ IF args.print_segments THEN Return(EXIT_SUCCESS, "")
       ELSE IF all_clips = <<>>
       THEN Return(EXIT_NO_MATCHES, "no matches found")
       ELSE \E outcome \in ConcatOutcomes(all_clips) :
               IF outcome.exc = "RuntimeError"
               THEN ReturnWith(EXIT_INPUT, "ffmpeg failed", outcome.left)
               ELSE ReturnWith(EXIT_SUCCESS, "", outcome.left)
    /\ UNCHANGED <<inputs, args, query_tokens_list, idx, matched_subs, cue_k,
                   refined, cue_log, raw_matches, file_segments, all_clips,
                   counter_index, merge_log>>
    /\ UNCHANGED exceptMain

NextMain ==
    m_Validate \/ m_Setup \/ m_File \/ m_Cue \/ m_Merge \/ m_Emit \/ m_Finish

SpecMain == InitMain /\ [][NextMain]_vars

RECURSIVE ConcatAdded(_)
\* Everything the logged cue steps appended, in order.
ConcatAdded(log) ==
    IF log = <<>> THEN <<>> ELSE Head(log).added \o ConcatAdded(Tail(log))

\* What a transcribed cue must append: its hits shifted by the cue start, or
\* the cue's own bounds when there is no hit.
ExpectedFor(seg, words) ==
    LET hits == ConcatHits(words, query_tokens_list,
                           Len(query_tokens_list), args.match_mode)
    IN  IF hits # <<>>
        THEN [j \in 1..Len(hits) |->
                <<seg.start + hits[j][1], seg.start + hits[j][2]>>]
        ELSE << <<seg.start, seg.end>> >>

\* C1: a coarse-matched cue whose extraction and transcription complete
\* appends exactly its k >= 1 local hits, each shifted by cue.start and in
\* order, or else exactly its own unmodified (cue.start, cue.end); nothing
\* else is appended to the file's list.
C1_PerCueIntervals ==
    /\ Len(cue_log) <= Len(matched_subs)
    /\ \A k \in 1..Len(cue_log) :
          cue_log[k].exc = "none" =>
              cue_log[k].added = ExpectedFor(matched_subs[k], cue_log[k].words)
    /\ refined = ConcatAdded(cue_log)

\* A cue starting after 0 whose window held two hits appended both, shifted.
C1_Witness ==
    \E k \in 1..Len(cue_log) :
        /\ cue_log[k].exc = "none"
        /\ matched_subs[k].start > 0
        /\ Len(cue_log[k].words) = 2
        /\ Len(cue_log[k].added) = 2
        /\ cue_log[k].added[1][1] = matched_subs[k].start
        /\ \E j \in 1..Len(refined) : refined[j] = cue_log[k].added[2]

\* C2 as stated: once a file is processed, every cue the coarse matcher
\* selected has contributed at least one interval, whatever extraction and
\* ASR did.  (Fails: a cue whose extraction fails contributes none.)
C2_Original ==
    main_pc = "merged" =>
        \A k \in 1..Len(matched_subs) :
            k <= Len(cue_log) /\ Len(cue_log[k].added) >= 1

\* C2 amended: once a file is processed, every selected cue whose audio
\* extraction succeeded has contributed at least one interval (its refined
\* hits or its own bounds), and a cue whose extraction failed has
\* contributed none; the raw list is exactly these contributions.
C2_Amended ==
    main_pc = "merged" =>
        /\ Len(cue_log) = Len(matched_subs)
        /\ \A k \in 1..Len(cue_log) :
              /\ cue_log[k].exc = "none" => Len(cue_log[k].added) >= 1
              /\ cue_log[k].exc # "none" => cue_log[k].added = <<>>
        /\ raw_matches = ConcatAdded(cue_log)

\* A processed file in which one cue's extraction failed and another cue,
\* transcribed without a hit, fell back to its own bounds.
C2_Witness ==
    /\ main_pc = "merged"
    /\ \E k \in 1..Len(cue_log) : cue_log[k].exc = "RuntimeError"
    /\ \E k \in 1..Len(cue_log) :
          /\ cue_log[k].exc = "none"
          /\ cue_log[k].words = <<>>
          /\ raw_matches = << <<matched_subs[k].start, matched_subs[k].end>> >>

\* The "no matches found" return is taken only after the last input, outside
\* print-segments mode, with no clip cut for any input; an input without
\* coarse matches or merged spans (cli.py:229-230) only moves on to the next.
NoMatchesOnlyAtTheEnd ==
    /\ (main_pc = "returned" /\ exit.message = "no matches found") =>
          /\ idx = Len(inputs) + 1
          /\ all_clips = <<>>
          /\ ~args.print_segments
    /\ (main_pc = "merged" /\ file_segments = <<>>) => exit.code = -1

\* C11: a run in which no input produced a clip ends in the "no matches"
\* outcome, and the status main returns for it differs from the status of
\* every other outcome: success, configuration error, input error.
\* (Fails: main returns 2 for it, the status of a configuration error.)
C11_NoMatchesDistinct ==
    (main_pc = "returned" /\ exit.message = "no matches found") =>
        /\ all_clips = <<>>
        /\ exit.code \notin {EXIT_SUCCESS, EXIT_CONFIGURATION, EXIT_INPUT}

\* Interval iv is one the cues of input i can contribute: for some cue the
\* coarse matcher selects and some response of the engine, one of the hits
\* shifted by the cue's start, or the cue's own bounds.
DerivedFrom(iv, i) ==
    LET cues == match_subtitle_segments(inputs[i], query_tokens_list,
                                        args.match_mode)
    IN  \E k \in 1..Len(cues), tr \in TranscribeOutcomes :
            /\ tr.exc = "none"
            /\ LET added == RefinedFor(cues[k],
                                find_any_phrase_matches(tr.value,
                                    query_tokens_list, args.match_mode))
               IN  \E j \in 1..Len(added) : added[j] = iv

\* The inputs whose merge pass has been made, by main's position.
MergedInputs ==
    CASE main_pc \in {"args", "setup"} -> {0}
      [] main_pc \in {"file", "cue"} -> {idx - 1}
      [] main_pc = "merged" -> {idx}
      [] main_pc = "finish" -> {Len(inputs)}
      [] OTHER -> 0..Len(inputs)

\* The input whose spans `file_segments` holds once its clips are cut: the
\* one before idx, until the next merge pass.
LastCut == IF main_pc \in {"file", "cue", "finish"} THEN idx - 1 ELSE 0

\* C12: pad_and_merge is called once per input, in input order, on a raw
\* list that starts empty for the input and holds only intervals derived
\* from that input's cues; the clips handed to the concatenator are in
\* input order and, within an input, one per span of that input's pass in
\* span order, which is ascending span start.
C12_MergePerFile ==
    /\ Len(merge_log) \in MergedInputs
    /\ \A k \in 1..Len(merge_log) : merge_log[k] = k
    /\ (main_pc = "cue" /\ cue_k = 1) => refined = <<>>
    /\ main_pc = "merged" =>
          /\ \A j \in 1..Len(raw_matches) : DerivedFrom(raw_matches[j], idx)
          /\ file_segments =
                pad_and_merge(raw_matches, args.padding, args.merge_gap,
                              args.min_duration)
    /\ \A a \in 1..Len(all_clips) : all_clips[a][1] \in 1..Len(merge_log)
    /\ \A a, b \in 1..Len(all_clips) :
          a < b =>
              \/ all_clips[a][1] < all_clips[b][1]
              \/ /\ all_clips[a][1] = all_clips[b][1]
                 /\ all_clips[a][2] < all_clips[b][2]
    /\ (LastCut > 0 /\ ~args.print_segments) =>
          /\ \A n \in 1..Len(file_segments) :
                \E a \in 1..Len(all_clips) : all_clips[a] = <<LastCut, n>>
          /\ \A a \in 1..Len(all_clips) :
                all_clips[a][1] = LastCut =>
                    all_clips[a][2] \in 1..Len(file_segments)
          /\ \A a, b \in 1..Len(all_clips) :
                (a < b /\ all_clips[a][1] = LastCut
                       /\ all_clips[b][1] = LastCut) =>
                    file_segments[all_clips[a][2]][1]
                        <= file_segments[all_clips[b][2]][1]

\* After the last of two inputs, each of which had its own merge pass on
\* intervals of its own cues: clips of both inputs, the second input's two
\* clips cut from spans starting after 0.
C12_Witness ==
    /\ main_pc = "finish"
    /\ merge_log = <<1, 2>>
    /\ inputs[1] # inputs[2]
    /\ \E a \in 1..Len(all_clips) : all_clips[a][1] = 1
    /\ \E a \in 1..Len(all_clips) :
          /\ all_clips[a] = <<2, 2>>
          /\ file_segments[2][1] > file_segments[1][1]

\* The temporary directory is not held before the first input, is held
\* while the inputs are processed and the clips concatenated, and is not
\* held once main is over, however it ended; with it went every file
\* placed in it.
TmpdirScoped ==
    /\ main_pc \in {"args", "setup"} => tmpdir = "none" /\ artifacts = {}
    /\ main_pc \in {"file", "cue", "merged", "finish"} => tmpdir = "held"
    /\ main_pc \in {"returned", "raised"} =>
          /\ tmpdir \in {"none", "released"}
          /\ \A a \in artifacts : ~InTmpdir(a)

\* C13: the scratch area is acquired once, before the first input, and on
\* every path out of main it has been released; once main is over, no
\* intermediate file the run wrote (extracted subtitles, audio windows, cut
\* clips, concat list) remains.
\* (Fails: the concat list is written beside the output and is still there
\* when ffmpeg fails to concatenate.)
C13_NothingRemains ==
    main_pc \in {"returned", "raised"} =>
        /\ tmpdir \in {"none", "released"}
        /\ artifacts = {}

(***************************************************************************)
(* pad_and_merge, segments.py:108-138, called with the same padding,      *)
(* merge_gap and min_duration on one list of intervals in two orders.  The *)
(* list ao_segments is given in the order of (start, end); ao_arrival is   *)
(* any permutation of it, so every list of up to MaxSegs intervals is the  *)
(* arrival order of some ao_segments, and two lists that are permutations  *)
(* of each other are arrival orders of the same ao_segments.               *)
(***************************************************************************)

\* Interval a is listed before b: by start, then by end.
ListedBefore(a, b) == a[1] < b[1] \/ (a[1] = b[1] /\ a[2] <= b[2])

Listed(s) == \A i \in 1..(Len(s) - 1) : ListedBefore(s[i], s[i + 1])

\* Every order the intervals of s can arrive in.
Arrivals(s) ==
    LET n == Len(s)
        perms == {p \in [1..n -> 1..n] : \A i, j \in 1..n : p[i] = p[j] => i = j}
    IN  {[i \in 1..n |-> s[p[i]]] : p \in perms}

InitOrder ==
    /\ ao_pc = "call"
    /\ ao_segments \in {s \in SeqsUpTo(Intervals, MaxSegs) : Listed(s)}
    /\ ao_padding \in Paddings
    /\ ao_merge_gap \in MergeGaps
    /\ ao_min_duration \in MinDurations
    /\ ao_arrival = <<>>
    /\ ao_result = <<>>
    /\ ao_result_arrival = <<>>
    /\ OrderRest

\* segments.py:108-138, twice: on the list and on one of its arrival orders.
ao_Call ==
    /\ ao_pc = "call"
    /\ \E arrival \in Arrivals(ao_segments) :
          /\ ao_arrival' = arrival
          /\ ao_result_arrival' =
                pad_and_merge(arrival, ao_padding, ao_merge_gap,
                              ao_min_duration)
    /\ ao_result' = pad_and_merge(ao_segments, ao_padding, ao_merge_gap,
                                  ao_min_duration)
    /\ ao_pc' = "done"
    /\ UNCHANGED <<ao_segments, ao_padding, ao_merge_gap, ao_min_duration>>
    /\ UNCHANGED exceptOrder

NextOrder == ao_Call

SpecOrder == InitOrder /\ [][NextOrder]_vars

\* C14 as stated: for every list of intervals, every order it arrives in
\* and every padding, merge_gap and min_duration, pad_and_merge returns
\* the same spans.  (Fails for a negative merge_gap.)
C14_Original == ao_pc = "done" => ao_result_arrival = ao_result

\* C14 amended: for every list of intervals, every order it arrives in
\* (orders of intervals of equal start included), every padding and
\* min_duration and every merge_gap >= 0, pad_and_merge returns the same
\* spans.
C14_Amended ==
    (ao_pc = "done" /\ ao_merge_gap >= 0) => ao_result_arrival = ao_result

\* Two intervals of equal start and different ends arrived in both orders
\* among three, with merge_gap >= 0, and a span was returned.
C14_Witness ==
    /\ ao_pc = "done"
    /\ ao_merge_gap >= 0
    /\ Len(ao_segments) = 3
    /\ ao_arrival # ao_segments
    /\ ao_segments[1][1] = ao_segments[2][1]
    /\ ao_segments[1][2] < ao_segments[2][2]
    /\ ao_arrival[1] = ao_segments[2]
    /\ ao_arrival[3] = ao_segments[1]
    /\ ao_result # <<>>

=============================================================================
